---------------------------- MODULE Spec2Model ----------------------------
(***************************************************************************)
(* A model of two cores of upscaledb / hamsterdb:                          *)
(*                                                                         *)
(*   - the top-K / bottom-K scan visitors of the UQI query layer           *)
(*     (src/src/4uqi/top.h, src/src/4uqi/bottom.h), specification SpecScan *)
(*   - the disk blob manager (src/src/3blob_manager/blob_manager_disk.h),  *)
(*     specification SpecBlob                                              *)
(*   - the File handle wrapper (src/src/1os/file.h), specification         *)
(*     SpecFile                                                            *)
(*                                                                         *)
(* Keys and records are numbers.  A std::map<T1, T2> is a set of pairs     *)
(* <<first, second>> in which no two pairs share their first component.    *)
(***************************************************************************)
EXTENDS Integers, Sequences, FiniteSets, TLC

VARIABLES
    \* ---- scan visitors ----
    visitor,        \* the class constructed: "Top", "TopIf", "Bottom", "BottomIf"
    cfg,            \* DbConfig: [key_type, record_type], each "uint" or "real"
    statement,      \* SelectStatement: [limit, stream_key (the UQI_STREAM_KEY flag)]
    P,              \* the members of the visitor's base class (P:: in the source)
    fed,            \* history: the rows delivered to the visitor so far
    given_limit,    \* history: statement->limit as handed to the constructor
    entries,        \* history: the entry points called so far, of "row" and "array"
    result,         \* the rows assign_result has emitted, or NoResult
    \* ---- blob manager ----
    env,            \* the paged file: [nfile, status, header, mem]
    live,           \* history: blob id -> the payload last stored under it
    last_op,        \* history: the last call, its arguments and what it returned
    ops,            \* history: the number of calls made
    \* ---- File objects ----
    files,          \* File object -> [alive, m_fd, m_mmaph]
    os_handles,     \* the handles the operating system holds open
    last_fop,       \* history: the last File operation and its operands
    fops            \* history: the number of File operations made

scan_vars == <<visitor, cfg, statement, P, fed, given_limit, entries, result>>

blob_vars == <<env, live, last_op, ops>>

file_vars == <<files, os_handles, last_fop, fops>>

vars == <<scan_vars, blob_vars, file_vars>>

----------------------------------------------------------------------------
(* Bounds of the model *)

\* longest stream of rows delivered to one visitor
MaxStream == 4
\* largest statement->limit handed to a constructor
MaxLimit == 2
\* longest array handed to the array entry point
MaxBatch == 2

(* The numeric types.  "uint" is an unsigned integer type with the values  *)
(* 0..UintMax; "real" is a floating point type whose values are modelled   *)
(* as numbers symmetric around 0.                                          *)

\* std::numeric_limits<unsigned>::max()
UintMax == 2
\* std::numeric_limits<real>::max(), the largest finite value
RealMax == 2
\* std::numeric_limits<real>::min(): the smallest POSITIVE normalized value
RealMin == 1

Types == {"uint", "real"}

\* the values of a type that rows are drawn from
Values(t) == IF t = "uint" THEN 0..UintMax ELSE {0 - RealMax, 0, RealMax}

numeric_limits_max(t) == IF t = "uint" THEN UintMax ELSE RealMax

numeric_limits_min(t) == IF t = "uint" THEN 0 ELSE RealMin

\* the (key_type, record_type) pairs a database is configured with
TypePairs == {<<"uint", "uint">>, <<"uint", "real">>, <<"real", "uint">>}

NoResult == <<"no result">>

----------------------------------------------------------------------------
(* std::map *)

MapKeys(m) == {e[1] : e \in m}

\* std::map::insert: a pair whose key is already present is not inserted
map_insert(m, k, v) == IF k \in MapKeys(m) THEN m ELSE m \cup {<<k, v>>}

\* m.erase(m.find(k)).  When k is not in the map, find returns end() and
\* erase(end()) is undefined: the process aborts, or it goes on with the
\* map untouched or with some one node unlinked.
map_erase_find(m, k) ==
    IF k \in MapKeys(m)
    THEN {[storage |-> {e \in m : e[1] # k}, abort |-> FALSE]}
    ELSE {[storage |-> m, abort |-> TRUE]}
         \cup {[storage |-> m, abort |-> FALSE]}
         \cup {[storage |-> m \ {e}, abort |-> FALSE] : e \in m}

SetMin(S) == CHOOSE x \in S : \A y \in S : x <= y

SetMax(S) == CHOOSE x \in S : \A y \in S : x >= y

\* storage.begin()->first
map_begin_first(m) == SetMin(MapKeys(m))

\* storage.rbegin()->first
map_rbegin_first(m) == SetMax(MapKeys(m))

----------------------------------------------------------------------------
(* store_min_value / store_max_value: the set of outcomes                  *)
(* [storage, ret, abort] of one call                                       *)

\* a variant that also admits a value equal to the boundary
store_min_value_admit_equal(new_minimum, old_minimum, value, storage, limit) ==
    IF Cardinality(storage) < limit
    THEN {[storage |-> map_insert(storage, new_minimum, value),
           ret |-> IF new_minimum < old_minimum THEN new_minimum ELSE old_minimum,
           abort |-> FALSE]}
    ELSE IF new_minimum >= old_minimum
    THEN {IF e.abort
          THEN [storage |-> e.storage, ret |-> old_minimum, abort |-> TRUE]
          ELSE [storage |-> map_insert(e.storage, new_minimum, value),
                ret |-> map_begin_first(map_insert(e.storage, new_minimum, value)),
                abort |-> FALSE]
          : e \in map_erase_find(storage, old_minimum)}
    ELSE {[storage |-> storage, ret |-> old_minimum, abort |-> FALSE]}

store_min_value(new_minimum, old_minimum, value, storage, limit) ==
    IF Cardinality(storage) < limit
    THEN {[storage |-> map_insert(storage, new_minimum, value),
           ret |-> IF new_minimum < old_minimum THEN new_minimum ELSE old_minimum,
           abort |-> FALSE]}
    ELSE IF new_minimum > old_minimum
    THEN {IF e.abort
          THEN [storage |-> e.storage, ret |-> old_minimum, abort |-> TRUE]
          ELSE [storage |-> map_insert(e.storage, new_minimum, value),
                ret |-> map_begin_first(map_insert(e.storage, new_minimum, value)),
                abort |-> FALSE]
          : e \in map_erase_find(storage, old_minimum)}
    ELSE {[storage |-> storage, ret |-> old_minimum, abort |-> FALSE]}

store_max_value(new_maximum, old_maximum, value, storage, limit) ==
    IF Cardinality(storage) < limit
    THEN {[storage |-> map_insert(storage, new_maximum, value),
           ret |-> IF new_maximum > old_maximum THEN new_maximum ELSE old_maximum,
           abort |-> FALSE]}
    ELSE IF new_maximum < old_maximum
    THEN {IF e.abort
          THEN [storage |-> e.storage, ret |-> old_maximum, abort |-> TRUE]
          ELSE [storage |-> map_insert(e.storage, new_maximum, value),
                ret |-> map_rbegin_first(map_insert(e.storage, new_maximum, value)),
                abort |-> FALSE]
          : e \in map_erase_find(storage, old_maximum)}
    ELSE {[storage |-> storage, ret |-> old_maximum, abort |-> FALSE]}

----------------------------------------------------------------------------
(* The constructors *)

\* what the base constructors do to statement->limit
ctor_limit(l) == IF l = 0 THEN 1 ELSE l

TopScanVisitorBase(c) ==
    [min_key |-> numeric_limits_max(c.key_type),
     min_record |-> numeric_limits_max(c.record_type),
     stored_keys |-> {}, stored_records |-> {}, aborted |-> FALSE,
     asked |-> <<>>]

BottomScanVisitorBase(c) ==
    [max_key |-> numeric_limits_min(c.key_type),
     max_record |-> numeric_limits_min(c.record_type),
     stored_keys |-> {}, stored_records |-> {}, aborted |-> FALSE,
     asked |-> <<>>]

IsTop(v) == v \in {"Top", "TopIf"}

HasPlugin(v) == v \in {"TopIf", "BottomIf"}

\* the predicate plugin of the If visitors: an external function of the row
plugin_pred(key, record) == record > 0

\* a call of plugin.pred as the plugin sees it: p.asked lists the rows the
\* plugin has been called with, in the order of the calls
plugin_called(p, key, record) == [p EXCEPT !.asked = Append(@, <<key, record>>)]


----------------------------------------------------------------------------
(* The entry points.  Each yields the set of states of P that one call can *)
(* leave behind (one state, unless the call runs into erase(end())).       *)

\* P::min_key = store_min_value(key, P::min_key, record, P::stored_keys, limit)
top_assign_keys(p, o) ==
    IF o.abort THEN [p EXCEPT !.aborted = TRUE]
    ELSE [p EXCEPT !.stored_keys = o.storage, !.min_key = o.ret]

\* P::min_record = store_min_value(record, P::min_record, key, P::stored_records, limit)
top_assign_records(p, o) ==
    IF o.abort THEN [p EXCEPT !.aborted = TRUE]
    ELSE [p EXCEPT !.stored_records = o.storage, !.min_record = o.ret]

bottom_assign_keys(p, o) ==
    IF o.abort THEN [p EXCEPT !.aborted = TRUE]
    ELSE [p EXCEPT !.stored_keys = o.storage, !.max_key = o.ret]

bottom_assign_records(p, o) ==
    IF o.abort THEN [p EXCEPT !.aborted = TRUE]
    ELSE [p EXCEPT !.stored_records = o.storage, !.max_record = o.ret]

\* TopScanVisitor::operator()(key_data, key_size, record_data, record_size, ...)
TopScanVisitor_row(p, stmt, key, record) ==
    IF stmt.stream_key
    THEN {top_assign_keys(p, o) :
            o \in store_min_value(key, p.min_key, record, p.stored_keys, stmt.limit)}
    ELSE {top_assign_records(p, o) :
            o \in store_min_value(record, p.min_record, key, p.stored_records, stmt.limit)}

\* the loop of the array entry point over the keys; i is where kit and rit stand
RECURSIVE TopScanVisitor_loop_keys(_, _, _, _, _)
TopScanVisitor_loop_keys(p, stmt, keys, records, i) ==
    IF i > Len(keys) \/ p.aborted THEN {p}
    ELSE UNION {TopScanVisitor_loop_keys(top_assign_keys(p, o), stmt, keys, records, i + 1) :
                  o \in store_min_value(keys[i], p.min_key, records[i],
                                        p.stored_keys, stmt.limit)}

RECURSIVE TopScanVisitor_loop_records(_, _, _, _, _)
TopScanVisitor_loop_records(p, stmt, keys, records, i) ==
    IF i > Len(keys) \/ p.aborted THEN {p}
    ELSE UNION {TopScanVisitor_loop_records(top_assign_records(p, o), stmt, keys, records, i + 1) :
                  o \in store_min_value(records[i], p.min_record, keys[i],
                                        p.stored_records, stmt.limit)}

\* a variant that stops after the first row of the array
TopScanVisitor_array_first_row(p, stmt, keys, records) ==
    TopScanVisitor_row(p, stmt, keys[1], records[1])

\* TopScanVisitor::operator()(key_data, record_data, length)
TopScanVisitor_array(p, stmt, keys, records) ==
    IF stmt.stream_key
    THEN TopScanVisitor_loop_keys(p, stmt, keys, records, 1)
    ELSE TopScanVisitor_loop_records(p, stmt, keys, records, 1)

\* a variant that does not ask the predicate
TopIfScanVisitor_row_ungated(p, stmt, key, record) ==
    TopScanVisitor_row(p, stmt, key, record)

\* a variant that compares with the boundary of a full window first and asks
\* the predicate only about rows that could be admitted
TopIfScanVisitor_row_boundary_first(p, stmt, key, record) ==
    LET full == IF stmt.stream_key
                THEN Cardinality(MapKeys(p.stored_keys)) >= stmt.limit
                ELSE Cardinality(MapKeys(p.stored_records)) >= stmt.limit
        worse == IF stmt.stream_key THEN key <= p.min_key ELSE record <= p.min_record
        q == plugin_called(p, key, record)
    IN  IF full /\ worse THEN {p}
        ELSE IF plugin_pred(key, record)
        THEN IF stmt.stream_key
             THEN {top_assign_keys(q, o) :
                     o \in store_min_value(key, q.min_key, record, q.stored_keys, stmt.limit)}
             ELSE {top_assign_records(q, o) :
                     o \in store_min_value(record, q.min_record, key, q.stored_records, stmt.limit)}
        ELSE {q}

\* TopIfScanVisitor::operator()(key_data, key_size, record_data, record_size, ...)
TopIfScanVisitor_row(p, stmt, key, record) ==
    LET q == plugin_called(p, key, record)
    IN  IF plugin_pred(key, record)
        THEN IF stmt.stream_key
             THEN {top_assign_keys(q, o) :
                     o \in store_min_value(key, q.min_key, record, q.stored_keys, stmt.limit)}
             ELSE {top_assign_records(q, o) :
                     o \in store_min_value(record, q.min_record, key, q.stored_records, stmt.limit)}
        ELSE {q}

RECURSIVE TopIfScanVisitor_loop_keys(_, _, _, _, _)
TopIfScanVisitor_loop_keys(p, stmt, keys, records, i) ==
    IF i > Len(keys) \/ p.aborted THEN {p}
    ELSE LET q == plugin_called(p, keys[i], records[i])
         IN  IF plugin_pred(keys[i], records[i])
             THEN UNION {TopIfScanVisitor_loop_keys(top_assign_keys(q, o), stmt,
                                                    keys, records, i + 1) :
                           o \in store_min_value(keys[i], q.min_key, records[i],
                                                 q.stored_keys, stmt.limit)}
             ELSE TopIfScanVisitor_loop_keys(q, stmt, keys, records, i + 1)

RECURSIVE TopIfScanVisitor_loop_records(_, _, _, _, _)
TopIfScanVisitor_loop_records(p, stmt, keys, records, i) ==
    IF i > Len(keys) \/ p.aborted THEN {p}
    ELSE LET q == plugin_called(p, keys[i], records[i])
         IN  IF plugin_pred(keys[i], records[i])
             THEN UNION {TopIfScanVisitor_loop_records(top_assign_records(q, o), stmt,
                                                    keys, records, i + 1) :
                           o \in store_min_value(records[i], q.min_record, keys[i],
                                                 q.stored_records, stmt.limit)}
             ELSE TopIfScanVisitor_loop_records(q, stmt, keys, records, i + 1)

\* TopIfScanVisitor::operator()(key_data, record_data, length)
TopIfScanVisitor_array(p, stmt, keys, records) ==
    IF stmt.stream_key
    THEN TopIfScanVisitor_loop_keys(p, stmt, keys, records, 1)
    ELSE TopIfScanVisitor_loop_records(p, stmt, keys, records, 1)

\* BottomScanVisitor::operator()(key_data, key_size, record_data, record_size, ...)
BottomScanVisitor_row(p, stmt, key, record) ==
    IF stmt.stream_key
    THEN {bottom_assign_keys(p, o) :
            o \in store_max_value(key, p.max_key, record, p.stored_keys, stmt.limit)}
    ELSE {bottom_assign_records(p, o) :
            o \in store_max_value(record, p.max_record, key, p.stored_records, stmt.limit)}

RECURSIVE BottomScanVisitor_loop_keys(_, _, _, _, _)
BottomScanVisitor_loop_keys(p, stmt, keys, records, i) ==
    IF i > Len(keys) \/ p.aborted THEN {p}
    ELSE UNION {BottomScanVisitor_loop_keys(bottom_assign_keys(p, o), stmt, keys, records, i + 1) :
                  o \in store_max_value(keys[i], p.max_key, records[i],
                                        p.stored_keys, stmt.limit)}

RECURSIVE BottomScanVisitor_loop_records(_, _, _, _, _)
BottomScanVisitor_loop_records(p, stmt, keys, records, i) ==
    IF i > Len(keys) \/ p.aborted THEN {p}
    ELSE UNION {BottomScanVisitor_loop_records(bottom_assign_records(p, o), stmt, keys, records, i + 1) :
                  o \in store_max_value(records[i], p.max_record, keys[i],
                                        p.stored_records, stmt.limit)}

\* BottomScanVisitor::operator()(key_data, record_data, length)
BottomScanVisitor_array(p, stmt, keys, records) ==
    IF stmt.stream_key
    THEN BottomScanVisitor_loop_keys(p, stmt, keys, records, 1)
    ELSE BottomScanVisitor_loop_records(p, stmt, keys, records, 1)

\* BottomIfScanVisitor::operator()(key_data, key_size, record_data, record_size, ...)
BottomIfScanVisitor_row(p, stmt, key, record) ==
    LET q == plugin_called(p, key, record)
    IN  IF plugin_pred(key, record)
        THEN IF stmt.stream_key
             THEN {bottom_assign_keys(q, o) :
                     o \in store_max_value(key, q.max_key, record, q.stored_keys, stmt.limit)}
             ELSE {bottom_assign_records(q, o) :
                     o \in store_max_value(record, q.max_record, key, q.stored_records, stmt.limit)}
        ELSE {q}

RECURSIVE BottomIfScanVisitor_loop_keys(_, _, _, _, _)
BottomIfScanVisitor_loop_keys(p, stmt, keys, records, i) ==
    IF i > Len(keys) \/ p.aborted THEN {p}
    ELSE LET q == plugin_called(p, keys[i], records[i])
         IN  IF plugin_pred(keys[i], records[i])
             THEN UNION {BottomIfScanVisitor_loop_keys(bottom_assign_keys(q, o), stmt,
                                                    keys, records, i + 1) :
                           o \in store_max_value(keys[i], q.max_key, records[i],
                                                 q.stored_keys, stmt.limit)}
             ELSE BottomIfScanVisitor_loop_keys(q, stmt, keys, records, i + 1)

RECURSIVE BottomIfScanVisitor_loop_records(_, _, _, _, _)
BottomIfScanVisitor_loop_records(p, stmt, keys, records, i) ==
    IF i > Len(keys) \/ p.aborted THEN {p}
    ELSE LET q == plugin_called(p, keys[i], records[i])
         IN  IF plugin_pred(keys[i], records[i])
             THEN UNION {BottomIfScanVisitor_loop_records(bottom_assign_records(q, o), stmt,
                                                    keys, records, i + 1) :
                           o \in store_max_value(records[i], q.max_record, keys[i],
                                                 q.stored_records, stmt.limit)}
             ELSE BottomIfScanVisitor_loop_records(q, stmt, keys, records, i + 1)

\* BottomIfScanVisitor::operator()(key_data, record_data, length)
BottomIfScanVisitor_array(p, stmt, keys, records) ==
    IF stmt.stream_key
    THEN BottomIfScanVisitor_loop_keys(p, stmt, keys, records, 1)
    ELSE BottomIfScanVisitor_loop_records(p, stmt, keys, records, 1)

----------------------------------------------------------------------------
(* assign_result *)

\* the pairs of a std::map in the order its iterator visits them
RECURSIVE map_iterate(_)
map_iterate(m) ==
    IF m = {} THEN <<>>
    ELSE LET it == CHOOSE e \in m : e[1] = map_begin_first(m)
         IN  <<it>> \o map_iterate(m \ {it})

\* a variant that takes the map's first for the key in both branches
assign_result_swapped(p, stmt) ==
    LET its == map_iterate(IF stmt.stream_key THEN p.stored_keys ELSE p.stored_records)
    IN  [i \in 1..Len(its) |-> <<its[i][1], its[i][2]>>]

\* TopScanVisitorBase::assign_result and BottomScanVisitorBase::assign_result:
\* the rows <<key, record>> handed to uqi_result_add_row, in order
assign_result(p, stmt) ==
    IF stmt.stream_key
    THEN LET its == map_iterate(p.stored_keys)
         IN  [i \in 1..Len(its) |-> <<its[i][1], its[i][2]>>]
    ELSE LET its == map_iterate(p.stored_records)
         IN  [i \in 1..Len(its) |-> <<its[i][2], its[i][1]>>]

----------------------------------------------------------------------------
(* The scan: construction, rows and arrays of rows, then assign_result *)

\* a visitor as its constructor leaves it
ScanStart ==
    /\ visitor \in {"Top", "TopIf", "Bottom", "BottomIf"}
    /\ \E tp \in TypePairs : cfg = [key_type |-> tp[1], record_type |-> tp[2]]
    /\ given_limit \in 0..MaxLimit
    /\ \E sk \in BOOLEAN :
         statement = [limit |-> ctor_limit(given_limit), stream_key |-> sk]
    /\ P = IF IsTop(visitor) THEN TopScanVisitorBase(cfg) ELSE BottomScanVisitorBase(cfg)
    /\ fed = <<>>
    /\ entries = {}
    /\ result = NoResult

Scanning == result = NoResult /\ ~P.aborted

\* the arrays of n keys and n records a scan can hand over
KeyArrays(n) == [1..n -> Values(cfg.key_type)]

RecordArrays(n) == [1..n -> Values(cfg.record_type)]

Rows(keys, records) == [i \in 1..Len(keys) |-> <<keys[i], records[i]>>]

ScanFrame ==
    UNCHANGED <<visitor, cfg, statement, given_limit, result, blob_vars, file_vars>>

TopRow ==
    /\ visitor = "Top" /\ Scanning /\ Len(fed) < MaxStream
    /\ \E key \in Values(cfg.key_type), record \in Values(cfg.record_type) :
         /\ P' \in TopScanVisitor_row(P, statement, key, record)
         /\ fed' = Append(fed, <<key, record>>)
    /\ entries' = entries \cup {"row"}
    /\ ScanFrame

TopArray ==
    /\ visitor = "Top" /\ Scanning
    /\ \E n \in 1..MaxBatch :
         /\ Len(fed) + n <= MaxStream
         /\ \E keys \in KeyArrays(n), records \in RecordArrays(n) :
              /\ P' \in TopScanVisitor_array(P, statement, keys, records)
              /\ fed' = fed \o Rows(keys, records)
    /\ entries' = entries \cup {"array"}
    /\ ScanFrame

TopIfRow ==
    /\ visitor = "TopIf" /\ Scanning /\ Len(fed) < MaxStream
    /\ \E key \in Values(cfg.key_type), record \in Values(cfg.record_type) :
         /\ P' \in TopIfScanVisitor_row(P, statement, key, record)
         /\ fed' = Append(fed, <<key, record>>)
    /\ entries' = entries \cup {"row"}
    /\ ScanFrame

TopIfArray ==
    /\ visitor = "TopIf" /\ Scanning
    /\ \E n \in 1..MaxBatch :
         /\ Len(fed) + n <= MaxStream
         /\ \E keys \in KeyArrays(n), records \in RecordArrays(n) :
              /\ P' \in TopIfScanVisitor_array(P, statement, keys, records)
              /\ fed' = fed \o Rows(keys, records)
    /\ entries' = entries \cup {"array"}
    /\ ScanFrame

BottomRow ==
    /\ visitor = "Bottom" /\ Scanning /\ Len(fed) < MaxStream
    /\ \E key \in Values(cfg.key_type), record \in Values(cfg.record_type) :
         /\ P' \in BottomScanVisitor_row(P, statement, key, record)
         /\ fed' = Append(fed, <<key, record>>)
    /\ entries' = entries \cup {"row"}
    /\ ScanFrame

BottomArray ==
    /\ visitor = "Bottom" /\ Scanning
    /\ \E n \in 1..MaxBatch :
         /\ Len(fed) + n <= MaxStream
         /\ \E keys \in KeyArrays(n), records \in RecordArrays(n) :
              /\ P' \in BottomScanVisitor_array(P, statement, keys, records)
              /\ fed' = fed \o Rows(keys, records)
    /\ entries' = entries \cup {"array"}
    /\ ScanFrame

BottomIfRow ==
    /\ visitor = "BottomIf" /\ Scanning /\ Len(fed) < MaxStream
    /\ \E key \in Values(cfg.key_type), record \in Values(cfg.record_type) :
         /\ P' \in BottomIfScanVisitor_row(P, statement, key, record)
         /\ fed' = Append(fed, <<key, record>>)
    /\ entries' = entries \cup {"row"}
    /\ ScanFrame

BottomIfArray ==
    /\ visitor = "BottomIf" /\ Scanning
    /\ \E n \in 1..MaxBatch :
         /\ Len(fed) + n <= MaxStream
         /\ \E keys \in KeyArrays(n), records \in RecordArrays(n) :
              /\ P' \in BottomIfScanVisitor_array(P, statement, keys, records)
              /\ fed' = fed \o Rows(keys, records)
    /\ entries' = entries \cup {"array"}
    /\ ScanFrame

AssignResult ==
    /\ Scanning
    /\ result' = assign_result(P, statement)
    /\ UNCHANGED <<visitor, cfg, statement, P, fed, given_limit, entries,
                   blob_vars, file_vars>>

NextScan ==
    \/ TopRow \/ TopArray \/ TopIfRow \/ TopIfArray
    \/ BottomRow \/ BottomArray \/ BottomIfRow \/ BottomIfArray
    \/ AssignResult

----------------------------------------------------------------------------
(* The disk blob manager.                                                  *)
(*                                                                         *)
(* Sizes and offsets are counted in units of the blob alignment.  The file *)
(* is a row of pages of page_size units; a page begins with its persistent *)
(* header, and a blob page's payload begins with the PBlobPageHeader.      *)
(* blob_manager_disk.h declares the operations; their bodies follow the    *)
(* design of the blob store.                                               *)

\* the pages the file can grow to
MaxPages == 3

\* the calls made on one file
MaxOps == 6

\* the page size of the environment
page_size == 11
\* Page::kSizeofPersistentHeader
kSizeofPersistentHeader == 1
\* sizeof(PBlobPageHeader)
SizeofPBlobPageHeader == 1
\* sizeof(PBlobHeader), the header in front of every payload
SizeofBlobHeader == 1

\* DiskBlobManager::kPageOverhead
kPageOverhead == kSizeofPersistentHeader + SizeofPBlobPageHeader

\* the payload area of a page
page_payload == page_size - kSizeofPersistentHeader

\* the length the model gives the fixed-length freelist of a page (32 in
\* the source)
MaxFreelistEntries == 2

\* PBlobPageHeader::get_freelist_entries
get_freelist_entries == MaxFreelistEntries

\* PBlobPageHeader::initialize: memset(this, 0, sizeof(PBlobPageHeader))
initialize ==
    [num_pages |-> 0, free_bytes |-> 0,
     freelist |-> [i \in 0..(get_freelist_entries - 1) |-> [offset |-> 0, size |-> 0]]]

\* PBlobPageHeader::set_num_pages
set_num_pages(h, num_pages) == [h EXCEPT !.num_pages = num_pages]

\* PBlobPageHeader::set_free_bytes
set_free_bytes(h, free_bytes) == [h EXCEPT !.free_bytes = free_bytes]

\* PBlobPageHeader::set_freelist_offset
set_freelist_offset(h, i, offset) == [h EXCEPT !.freelist[i].offset = offset]

\* PBlobPageHeader::set_freelist_size
set_freelist_size(h, i, size) == [h EXCEPT !.freelist[i].size = size]

Slots == 0..(get_freelist_entries - 1)

Pages == 0..(MaxPages - 1)

Addresses == 0..(MaxPages * page_size - 1)

\* what a unit of the file holds
ZeroUnit == [kind |-> "zero", a |-> 0, b |-> 0, c |-> 0]

PersistentHeaderUnit == [kind |-> "page", a |-> 0, b |-> 0, c |-> 0]

\* the blob header: blob_id_or_self_offset, allocated_size, blob_size
BlobHeaderUnit(self, allocated_size, blob_size) ==
    [kind |-> "blob", a |-> self, b |-> allocated_size, c |-> blob_size]

\* the i-th unit of the payload written by the call numbered tag
DataUnit(tag, i) == [kind |-> "data", a |-> tag, b |-> i, c |-> 0]

Payload(tag, len) == [i \in 1..len |-> DataUnit(tag, i)]

\* the ways a call fails: no size class places the blob, the provider has
\* no pages left (OutOfSpace), a write goes past the end of the file (IOError)
Error == 0 - 1

OutOfSpace == 0 - 2

IOError == 0 - 3

IsError(ret) == ret < 0

\* the page an address lies in, and the address of a page
PageOf(addr) == addr \div page_size

PageAddress(p) == p * page_size

\* ---- the paged file provider ----

\* allocate_page(count): a run of count contiguous pages, taken from the
\* free-page pool if it holds one (any of them) and else appended to the
\* file; the set of [d, page] it can yield.  The persistent header of the
\* run's first page is written.
allocate_page(d, count) ==
    LET take(p, n) ==
          [d EXCEPT !.nfile = n,
                    !.status = [q \in Pages |->
                                  IF q = p THEN "blob"
                                  ELSE IF q > p /\ q < p + count THEN "cont"
                                  ELSE d.status[q]],
                    !.mem[PageAddress(p)] = PersistentHeaderUnit]
        pooled == {p \in Pages : /\ p + count <= d.nfile
                                 /\ \A q \in p..(p + count - 1) : d.status[q] = "free"}
    IN  IF pooled # {}
        THEN {[d |-> take(p, d.nfile), page |-> p] : p \in pooled}
        ELSE IF d.nfile + count <= MaxPages
        THEN {[d |-> take(d.nfile, d.nfile + count), page |-> d.nfile]}
        ELSE {}

\* free_page(offset, count): the run goes back to the pool
free_page(d, p, count) ==
    [d EXCEPT !.status = [q \in Pages |->
                            IF q >= p /\ q < p + count THEN "free" ELSE d.status[q]],
              !.header[p] = initialize]

\* ---- the freelist of one page ----

FreeSlots(h) == {i \in Slots : h.freelist[i].size = 0}

\* a variant that cuts the slab from the end of the entry it takes
alloc_from_freelist_from_end(h, size) ==
    LET fits == {i \in Slots : h.freelist[i].size # 0 /\ h.freelist[i].size >= size}
    IN  IF h.num_pages > 1 \/ fits = {}
        THEN [hit |-> FALSE, header |-> h, offset |-> 0]
        ELSE LET i == SetMin(fits)
                 e == h.freelist[i]
                 taken == IF e.size = size
                          THEN set_freelist_size(set_freelist_offset(h, i, 0), i, 0)
                          ELSE set_freelist_size(h, i, e.size - size)
             IN  [hit |-> TRUE,
                  header |-> set_free_bytes(taken, h.free_bytes - size),
                  offset |-> e.offset + e.size - size]

\* a variant that leaves free_bytes as it was
alloc_from_freelist_keeps_free_bytes(h, size) ==
    LET fits == {i \in Slots : h.freelist[i].size # 0 /\ h.freelist[i].size >= size}
    IN  IF h.num_pages > 1 \/ fits = {}
        THEN [hit |-> FALSE, header |-> h, offset |-> 0]
        ELSE LET i == SetMin(fits)
                 e == h.freelist[i]
                 taken == IF e.size = size
                          THEN set_freelist_size(set_freelist_offset(h, i, 0), i, 0)
                          ELSE set_freelist_size(set_freelist_offset(h, i, e.offset + size),
                                                 i, e.size - size)
             IN  [hit |-> TRUE, header |-> taken, offset |-> e.offset]

\* alloc_from_freelist(header, size, poffset): first fit;
\* yields [hit, header, offset]
alloc_from_freelist(h, size) ==
    LET fits == {i \in Slots : h.freelist[i].size # 0 /\ h.freelist[i].size >= size}
    IN  IF h.num_pages > 1 \/ fits = {}
        THEN [hit |-> FALSE, header |-> h, offset |-> 0]
        ELSE LET i == SetMin(fits)
                 e == h.freelist[i]
                 taken == IF e.size = size
                          THEN set_freelist_size(set_freelist_offset(h, i, 0), i, 0)
                          ELSE set_freelist_size(set_freelist_offset(h, i, e.offset + size),
                                                 i, e.size - size)
             IN  [hit |-> TRUE,
                  header |-> set_free_bytes(taken, h.free_bytes - size),
                  offset |-> e.offset]

\* add_to_freelist(header, offset, size)
add_to_freelist(h, offset, size) ==
    LET adjacent == {i \in Slots : /\ h.freelist[i].size # 0
                                   /\ \/ h.freelist[i].offset + h.freelist[i].size = offset
                                      \/ h.freelist[i].offset = offset + size}
        smaller  == {i \in Slots : h.freelist[i].size < size}
        smallest == CHOOSE i \in smaller :
                      \A j \in smaller :
                        \/ h.freelist[i].size < h.freelist[j].size
                        \/ h.freelist[i].size = h.freelist[j].size /\ i <= j
        stored ==
          IF adjacent # {}
          THEN LET i == SetMin(adjacent)
               IN  IF h.freelist[i].offset = offset + size
                   THEN set_freelist_size(set_freelist_offset(h, i, offset),
                                          i, h.freelist[i].size + size)
                   ELSE set_freelist_size(h, i, h.freelist[i].size + size)
          ELSE IF FreeSlots(h) # {}
          THEN set_freelist_size(set_freelist_offset(h, SetMin(FreeSlots(h)), offset),
                                 SetMin(FreeSlots(h)), size)
          ELSE IF smaller # {}
          THEN set_freelist_size(set_freelist_offset(h, smallest, offset), smallest, size)
          ELSE h
    IN  set_free_bytes(stored, h.free_bytes + size)

\* check_integrity(header): no two entries overlap, every entry lies in the
\* payload behind the page header, and free_bytes is the sum of the entries
RECURSIVE SumSizes(_, _)
SumSizes(h, S) ==
    IF S = {} THEN 0
    ELSE LET i == SetMin(S) IN h.freelist[i].size + SumSizes(h, S \ {i})

check_integrity(h) ==
    LET used == Slots \ FreeSlots(h)
    IN  IF h.num_pages > 1
        THEN h.free_bytes = 0 /\ used = {}
        ELSE /\ \A i \in used :
                  /\ h.freelist[i].offset >= SizeofPBlobPageHeader
                  /\ h.freelist[i].offset + h.freelist[i].size <= page_payload
             /\ \A i, j \in used :
                  i # j => \/ h.freelist[i].offset + h.freelist[i].size <= h.freelist[j].offset
                           \/ h.freelist[j].offset + h.freelist[j].size <= h.freelist[i].offset
             /\ h.free_bytes = SumSizes(h, used)

\* ---- the blob operations ----

\* the blob header and the payload written as one strip at address addr
write_chunks(mem, addr, allocated_size, payload) ==
    [x \in Addresses |->
       IF x = addr THEN BlobHeaderUnit(addr, allocated_size, Len(payload))
       ELSE IF x > addr /\ x <= addr + Len(payload) THEN payload[x - addr]
       ELSE mem[x]]

\* a small blob placed in the blob page p, whose freelist has room for it
place_in_page(d, p, payload) ==
    LET total == SizeofBlobHeader + Len(payload)
        got   == alloc_from_freelist(d.header[p], total)
        addr  == PageAddress(p) + kSizeofPersistentHeader + got.offset
    IN  [d |-> [d EXCEPT !.header[p] = got.header,
                         !.mem = write_chunks(d.mem, addr, total - SizeofBlobHeader, payload)],
         ret |-> addr]

\* a fresh single blob page: num_pages = 1, all of the payload behind the
\* page header free
fresh_page(d, p) ==
    [d EXCEPT !.header[p] =
        set_freelist_size(
          set_freelist_offset(
            set_free_bytes(set_num_pages(initialize, 1),
                           page_payload - SizeofPBlobPageHeader),
            0, SizeofPBlobPageHeader),
          0, page_payload - SizeofPBlobPageHeader)]

\* the number of pages of a large blob: ceil((total + sizeof(PBlobPageHeader)) / page_size)
large_num_pages(total) ==
    (total + SizeofPBlobPageHeader + page_size - 1) \div page_size

\* do_allocate(db, record, flags): the set of [d, ret] a call can yield;
\* ret is the blob id, or Error with the file as it was
do_allocate(d, payload) ==
    LET total == SizeofBlobHeader + Len(payload)
    IN  IF total <= page_payload - SizeofPBlobPageHeader
        THEN \* small: a blob page with room, else a new page
             LET hinted == {p \in Pages : /\ d.status[p] = "blob"
                                          /\ d.header[p].num_pages = 1
                                          /\ d.header[p].free_bytes >= total
                                          /\ alloc_from_freelist(d.header[p], total).hit}
             IN  IF hinted # {}
                 THEN {place_in_page(d, p, payload) : p \in hinted}
                 ELSE IF allocate_page(d, 1) = {}
                 THEN {[d |-> d, ret |-> OutOfSpace]}
                 ELSE {place_in_page(fresh_page(n.d, n.page), n.page, payload) :
                         n \in allocate_page(d, 1)}
        ELSE IF total > page_payload
        THEN \* large: a run of pages with one header
             LET num_pages == large_num_pages(total)
                 runs == {n \in allocate_page(d, num_pages) :
                            PageAddress(n.page) + kPageOverhead + total
                              <= n.d.nfile * page_size}
             IN  IF allocate_page(d, num_pages) = {}
                 THEN {[d |-> d, ret |-> OutOfSpace]}
                 ELSE IF runs = {}
                 THEN {[d |-> d, ret |-> IOError]}
                 ELSE {LET addr == PageAddress(n.page) + kPageOverhead
                       IN  [d |-> [n.d EXCEPT
                                     !.header[n.page] =
                                        set_free_bytes(set_num_pages(initialize, num_pages), 0),
                                     !.mem = write_chunks(n.d.mem, addr,
                                                          total - SizeofBlobHeader, payload)],
                            ret |-> addr]
                       : n \in runs}
        ELSE \* neither size class
             {[d |-> d, ret |-> Error]}

\* whether blobid addresses a blob header
is_blob(d, blobid) ==
    /\ blobid \in Addresses
    /\ d.mem[blobid].kind = "blob"
    /\ d.mem[blobid].a = blobid

\* do_read(db, blobid, record, flags, arena): the payload, or Error
do_read(d, blobid) ==
    IF ~is_blob(d, blobid) \/ blobid + d.mem[blobid].c > MaxPages * page_size - 1
    THEN <<Error>>
    ELSE [i \in 1..d.mem[blobid].c |-> d.mem[blobid + i]]

\* do_get_blob_size(db, blobid)
do_get_blob_size(d, blobid) == IF is_blob(d, blobid) THEN d.mem[blobid].c ELSE Error

\* the allocated_size in the blob header
get_alloc_size(d, blobid) == d.mem[blobid].b

\* a variant that enters the slab of every erased blob, large ones
\* included, in the freelist of its page
do_erase_always_freelist(d, blobid) ==
    LET p == PageOf(blobid)
        h == d.header[p]
        freed == add_to_freelist(h, blobid - PageAddress(p) - kSizeofPersistentHeader,
                                 SizeofBlobHeader + get_alloc_size(d, blobid))
    IN  IF h.num_pages <= 1 /\ freed.free_bytes = page_payload - SizeofPBlobPageHeader
        THEN free_page(d, p, 1)
        ELSE [d EXCEPT !.header[p] = freed]

\* do_erase(db, blobid, page, flags)
do_erase(d, blobid) ==
    LET p == PageOf(blobid)
        h == d.header[p]
    IN  IF h.num_pages > 1
        THEN free_page(d, p, h.num_pages)
        ELSE LET freed == add_to_freelist(h, blobid - PageAddress(p) - kSizeofPersistentHeader,
                                          SizeofBlobHeader + get_alloc_size(d, blobid))
             IN  IF freed.free_bytes = page_payload - SizeofPBlobPageHeader
                 THEN free_page(d, p, 1)
                 ELSE [d EXCEPT !.header[p] = freed]

\* a variant that keeps the erase when the allocation that follows it fails
do_overwrite_no_rollback(d, old_blobid, payload) ==
    LET new_total == SizeofBlobHeader + Len(payload)
    IN  IF new_total <= get_alloc_size(d, old_blobid) + SizeofBlobHeader
        THEN {[d |-> [d EXCEPT !.mem = write_chunks(d.mem, old_blobid,
                                                    get_alloc_size(d, old_blobid), payload)],
               ret |-> old_blobid]}
        ELSE do_allocate(do_erase(d, old_blobid), payload)

\* a variant that never writes in place
do_overwrite_relocating(d, old_blobid, payload) ==
    {IF IsError(o.ret) THEN [d |-> d, ret |-> o.ret] ELSE o :
       o \in do_allocate(do_erase(d, old_blobid), payload)}

\* a variant that stores no more of the payload than the old blob held
do_overwrite_truncating(d, old_blobid, payload) ==
    LET new_total == SizeofBlobHeader + Len(payload)
    IN  IF new_total <= get_alloc_size(d, old_blobid) + SizeofBlobHeader
        THEN {[d |-> [d EXCEPT !.mem = write_chunks(d.mem, old_blobid,
                                                    get_alloc_size(d, old_blobid), payload)],
               ret |-> old_blobid]}
        ELSE {IF IsError(o.ret) THEN [d |-> d, ret |-> o.ret] ELSE o :
                o \in do_allocate(do_erase(d, old_blobid),
                                  SubSeq(payload, 1, get_alloc_size(d, old_blobid)))}

\* do_overwrite(db, old_blobid, record, flags): the set of [d, ret]
do_overwrite(d, old_blobid, payload) ==
    LET new_total == SizeofBlobHeader + Len(payload)
    IN  IF new_total <= get_alloc_size(d, old_blobid) + SizeofBlobHeader
        THEN {[d |-> [d EXCEPT !.mem = write_chunks(d.mem, old_blobid,
                                                    get_alloc_size(d, old_blobid), payload)],
               ret |-> old_blobid]}
        ELSE {IF IsError(o.ret) THEN [d |-> d, ret |-> o.ret] ELSE o :
                o \in do_allocate(do_erase(d, old_blobid), payload)}

----------------------------------------------------------------------------
(* The blob manager at work on one file *)

\* the payload lengths the calls are made with: small ones, the largest
\* that leaves the total within the page payload, the first large one, and
\* the largest whose page count leaves no room for the persistent header
PayloadLens ==
    {1, 2,
     page_payload - SizeofBlobHeader,
     page_payload - SizeofBlobHeader + 1,
     2 * page_size - SizeofPBlobPageHeader - SizeofBlobHeader}

NoOp == [op |-> "none", id |-> Error, len |-> 0, ret |-> Error, old_alloc |-> 0,
         num_pages |-> 0, before |-> [op |-> "none", id |-> Error]]

\* an empty file
BlobStart ==
    /\ env = [nfile |-> 0,
              status |-> [p \in Pages |-> "none"],
              header |-> [p \in Pages |-> initialize],
              mem |-> [x \in Addresses |-> ZeroUnit]]
    /\ live = <<>>
    /\ last_op = NoOp
    /\ ops = 0

LiveIds == DOMAIN live

\* the history after a call that left the payload under blob id ret
Stored(ids, ret, payload) ==
    [id \in ids \cup {ret} |-> IF id = ret THEN payload ELSE live[id]]

Allocate ==
    /\ ops < MaxOps
    /\ \E len \in PayloadLens :
         \E o \in do_allocate(env, Payload(ops + 1, len)) :
            /\ env' = o.d
            /\ live' = IF IsError(o.ret) THEN live
                       ELSE Stored(LiveIds, o.ret, Payload(ops + 1, len))
            /\ last_op' = [op |-> "allocate", id |-> Error, len |-> len,
                           ret |-> o.ret, old_alloc |-> 0, num_pages |-> 0,
                           before |-> [op |-> last_op.op, id |-> last_op.id]]
    /\ ops' = ops + 1
    /\ UNCHANGED <<scan_vars, file_vars>>

Erase ==
    /\ ops < MaxOps
    /\ \E id \in LiveIds :
         /\ env' = do_erase(env, id)
         /\ live' = [x \in LiveIds \ {id} |-> live[x]]
         /\ last_op' = [op |-> "erase", id |-> id, len |-> 0, ret |-> 0,
                        old_alloc |-> get_alloc_size(env, id),
                        num_pages |-> env.header[PageOf(id)].num_pages,
                        before |-> [op |-> last_op.op, id |-> last_op.id]]
    /\ ops' = ops + 1
    /\ UNCHANGED <<scan_vars, file_vars>>

Overwrite ==
    /\ ops < MaxOps
    /\ \E id \in LiveIds, len \in PayloadLens :
         \E o \in do_overwrite(env, id, Payload(ops + 1, len)) :
            /\ env' = o.d
            /\ live' = IF IsError(o.ret) THEN live
                       ELSE Stored(LiveIds \ {id}, o.ret, Payload(ops + 1, len))
            /\ last_op' = [op |-> "overwrite", id |-> id, len |-> len,
                           ret |-> o.ret, old_alloc |-> get_alloc_size(env, id),
                           num_pages |-> env.header[PageOf(id)].num_pages,
                        before |-> [op |-> last_op.op, id |-> last_op.id]]
    /\ ops' = ops + 1
    /\ UNCHANGED <<scan_vars, file_vars>>

NextBlob == Allocate \/ Erase \/ Overwrite

----------------------------------------------------------------------------
(* The File wrapper of 1os/file.h.  A File holds a file descriptor m_fd    *)
(* and a mapping handle m_mmaph (used on Win32); HAM_INVALID_FD stands for *)
(* no handle.  The operating system keeps the set of handles it has given  *)
(* out and not yet closed.                                                 *)

\* the File objects a run can have
MaxFiles == 3

\* the handles the operating system can give out
MaxHandles == 3

\* the File operations of one run
MaxFileOps == 5

HAM_INVALID_FD == 0 - 1

FileIds == 1..MaxFiles

Handles == 1..MaxHandles

\* an object that is not constructed, or was destroyed
NoFile == [alive |-> FALSE, m_fd |-> HAM_INVALID_FD, m_mmaph |-> HAM_INVALID_FD]

\* File::File()
File_ctor == [alive |-> TRUE, m_fd |-> HAM_INVALID_FD, m_mmaph |-> HAM_INVALID_FD]

\* File::File(File &other): the new object and what is left of other
File_copy(other) ==
    [self  |-> [alive |-> TRUE, m_fd |-> other.m_fd, m_mmaph |-> other.m_mmaph],
     other |-> [other EXCEPT !.m_fd = HAM_INVALID_FD, !.m_mmaph = HAM_INVALID_FD]]

\* File::operator=(File &other), self and other being two objects
File_assign(self, other) ==
    [self  |-> [self EXCEPT !.m_fd = other.m_fd],
     other |-> [other EXCEPT !.m_fd = HAM_INVALID_FD]]

\* File::operator=(File &other) when other is the object itself: m_fd is
\* read, written back, and then set to HAM_INVALID_FD
File_assign_self(self) == [self EXCEPT !.m_fd = HAM_INVALID_FD]

\* File::is_open
is_open(f) == f.m_fd # HAM_INVALID_FD

\* the handles a File holds
Held(f) == {f.m_fd, f.m_mmaph} \ {HAM_INVALID_FD}

\* File::close: the handles the object holds are closed and forgotten
File_close(f) == [f EXCEPT !.m_fd = HAM_INVALID_FD, !.m_mmaph = HAM_INVALID_FD]

NoFileOp == [op |-> "none", self |-> 0, other |-> 0]

FileStart ==
    /\ files = [f \in FileIds |-> NoFile]
    /\ os_handles = {}
    /\ last_fop = NoFileOp
    /\ fops = 0

FileStep(op, self, other) ==
    /\ fops < MaxFileOps
    /\ fops' = fops + 1
    /\ last_fop' = [op |-> op, self |-> self, other |-> other]
    /\ UNCHANGED <<scan_vars, blob_vars>>

\* File f;
Construct ==
    \E f \in FileIds :
      /\ ~files[f].alive
      /\ files' = [files EXCEPT ![f] = File_ctor]
      /\ UNCHANGED os_handles
      /\ FileStep("construct", f, f)

\* f.create(filename, mode) or f.open(filename, read_only) on a File that
\* is not open: the operating system gives out a descriptor
Open ==
    \E f \in FileIds, h \in Handles \ os_handles :
      /\ files[f].alive /\ ~is_open(files[f])
      /\ files' = [files EXCEPT ![f].m_fd = h]
      /\ os_handles' = os_handles \cup {h}
      /\ FileStep("open", f, f)

\* f.mmap(position, size, readonly, buffer) where the mapping needs a
\* handle of its own
Mmap ==
    \E f \in FileIds, h \in Handles \ os_handles :
      /\ files[f].alive /\ is_open(files[f]) /\ files[f].m_mmaph = HAM_INVALID_FD
      /\ files' = [files EXCEPT ![f].m_mmaph = h]
      /\ os_handles' = os_handles \cup {h}
      /\ FileStep("mmap", f, f)

\* File b(a);
CopyConstruct ==
    \E b, a \in FileIds :
      /\ ~files[b].alive /\ files[a].alive
      /\ files' = [files EXCEPT ![b] = File_copy(files[a]).self,
                                ![a] = File_copy(files[a]).other]
      /\ UNCHANGED os_handles
      /\ FileStep("copy", b, a)

\* b = a;
Assign ==
    \E b, a \in FileIds :
      /\ files[b].alive /\ files[a].alive
      /\ files' = IF a = b
                  THEN [files EXCEPT ![b] = File_assign_self(files[b])]
                  ELSE [files EXCEPT ![b] = File_assign(files[b], files[a]).self,
                                     ![a] = File_assign(files[b], files[a]).other]
      /\ UNCHANGED os_handles
      /\ FileStep("assign", b, a)

\* f.close();
Close ==
    \E f \in FileIds :
      /\ files[f].alive
      /\ files' = [files EXCEPT ![f] = File_close(files[f])]
      /\ os_handles' = os_handles \ Held(files[f])
      /\ FileStep("close", f, f)

\* File::~File: close(), and the object is gone
Destroy ==
    \E f \in FileIds :
      /\ files[f].alive
      /\ files' = [files EXCEPT ![f] = NoFile]
      /\ os_handles' = os_handles \ Held(files[f])
      /\ FileStep("destroy", f, f)

NextFile == Construct \/ Open \/ Mmap \/ CopyConstruct \/ Assign \/ Close \/ Destroy

----------------------------------------------------------------------------
(* The specifications: each core on its own *)

\* a scan; the blob manager and the File objects are left alone
InitScan == ScanStart /\ BlobStart /\ FileStart

SpecScan == InitScan /\ [][NextScan]_vars

\* the scan variables while the blob manager works: no visitor at work
ScanIdle ==
    /\ visitor = "Top" /\ cfg = [key_type |-> "uint", record_type |-> "uint"]
    /\ given_limit = 1 /\ statement = [limit |-> 1, stream_key |-> TRUE]
    /\ P = TopScanVisitorBase(cfg)
    /\ fed = <<>> /\ entries = {} /\ result = NoResult

\* the blob manager at work on an empty file
InitBlob == ScanIdle /\ BlobStart /\ FileStart

SpecBlob == InitBlob /\ [][NextBlob]_vars

\* File objects at work
InitFile == ScanIdle /\ BlobStart /\ FileStart

SpecFile == InitFile /\ [][NextFile]_vars

----------------------------------------------------------------------------
(* What the claims about the scan visitors speak of *)

\* the value a row is ordered by: the key if UQI_STREAM_KEY is set
Ord(row, stmt) == IF stmt.stream_key THEN row[1] ELSE row[2]

\* the map of the selected dimension, and the other one
Window(p, stmt) == IF stmt.stream_key THEN p.stored_keys ELSE p.stored_records

OtherMap(p, stmt) == IF stmt.stream_key THEN p.stored_records ELSE p.stored_keys

PassesPred(row) == plugin_pred(row[1], row[2])

\* the rows of a stream that reach the selector
Offered(v, rows) == IF HasPlugin(v) THEN SelectSeq(rows, PassesPred) ELSE rows

OrdValues(rows, stmt) == [i \in 1..Len(rows) |-> Ord(rows[i], stmt)]

Occurrences(seq, x) == Cardinality({i \in 1..Len(seq) : seq[i] = x})

SeqRange(seq) == {seq[i] : i \in 1..Len(seq)}

\* how often x is among the k largest (smallest) members of the sequence
\* of numbers seq, counted with their multiplicity
AmongLargest(seq, k, x) ==
    LET above == Cardinality({i \in 1..Len(seq) : seq[i] > x})
        room  == IF k > above THEN k - above ELSE 0
    IN  IF Occurrences(seq, x) < room THEN Occurrences(seq, x) ELSE room

AmongSmallest(seq, k, x) ==
    LET below == Cardinality({i \in 1..Len(seq) : seq[i] < x})
        room  == IF k > below THEN k - below ELSE 0
    IN  IF Occurrences(seq, x) < room THEN Occurrences(seq, x) ELSE room

Constructed(v, c) == IF IsTop(v) THEN TopScanVisitorBase(c) ELSE BottomScanVisitorBase(c)

\* one call of the per-row entry point of class v
RowCall(v, p, stmt, row) ==
    CASE v = "Top"      -> TopScanVisitor_row(p, stmt, row[1], row[2])
      [] v = "TopIf"    -> TopIfScanVisitor_row(p, stmt, row[1], row[2])
      [] v = "Bottom"   -> BottomScanVisitor_row(p, stmt, row[1], row[2])
      [] v = "BottomIf" -> BottomIfScanVisitor_row(p, stmt, row[1], row[2])

\* the states a visitor of class v can be in after the rows from the i-th on
\* went one at a time through the per-row entry point, starting in a state of S
RECURSIVE RowByRow(_, _, _, _, _)
RowByRow(v, S, stmt, rows, i) ==
    IF i > Len(rows) THEN S
    ELSE RowByRow(v, UNION {IF p.aborted THEN {p} ELSE RowCall(v, p, stmt, rows[i]) : p \in S},
                  stmt, rows, i + 1)

Results(S, stmt) == {assign_result(p, stmt) : p \in {q \in S : ~q.aborted}}

PlainOf(v) == IF IsTop(v) THEN "Top" ELSE "Bottom"

----------------------------------------------------------------------------
(* C1: the rows emitted by assign_result of a TopScanVisitor (Bottom-)     *)
(* hold, as a multiset of ordering values, exactly the K largest           *)
(* (smallest) ordering values of the stream, or all of them if the stream  *)
(* is shorter than K.                                                      *)
C1_ResultIsKBest ==
    (visitor \in {"Top", "Bottom"} /\ result # NoResult) =>
        \A x \in Values(cfg.key_type) \cup Values(cfg.record_type) :
            Occurrences(OrdValues(result, statement), x)
              = IF visitor = "Top"
                THEN AmongLargest(OrdValues(fed, statement), statement.limit, x)
                ELSE AmongSmallest(OrdValues(fed, statement), statement.limit, x)

\* the members of a visitor that Top and TopIf share: everything but the plugin
Members(p) == [p EXCEPT !.asked = <<>>]

(* C2: a TopIf (BottomIf) visitor fed a stream is in a state, and emits a  *)
(* result, that the Top (Bottom) visitor has when fed the rows of the      *)
(* stream that satisfy the predicate, in the same order.                   *)
C2_PredicateGate ==
    HasPlugin(visitor) =>
        LET plain == RowByRow(PlainOf(visitor), {Constructed(visitor, cfg)}, statement,
                              SelectSeq(fed, PassesPred), 1)
        IN  /\ Members(P) \in plain
            /\ result # NoResult => result \in Results(plain, statement)

\* an If visitor has emitted its result after a stream in which the predicate
\* rejected rows that the plain visitor would have let change the result
C2_Witness ==
    /\ HasPlugin(visitor) /\ result # NoResult /\ Len(fed) = MaxStream
    /\ Len(result) = 2
    /\ result \notin Results(RowByRow(PlainOf(visitor), {Constructed(visitor, cfg)},
                                      statement, fed, 1), statement)

(* C3: whatever way the stream was split into arrays and single rows, the  *)
(* visitor is in a state (window and cached boundary), and emits a result, *)
(* that it has after the same rows went one at a time through the per-row  *)
(* entry point.                                                            *)
C3_BatchEquivalence ==
    LET single == RowByRow(visitor, {Constructed(visitor, cfg)}, statement, fed, 1)
    IN  /\ P \in single
        /\ result # NoResult => result \in Results(single, statement)

\* a full stream went in through both entry points, rows were evicted
\* from a full window, and the result was emitted
C3_Witness ==
    /\ entries = {"row", "array"} /\ Len(fed) = MaxStream
    /\ result # NoResult /\ Len(result) = 2
    /\ \E i \in 1..Len(fed) :
         Ord(fed[i], statement) \notin SeqRange(OrdValues(result, statement))
    /\ ~P.aborted

(* C4: the rows assign_result emits are in ascending order of the selected *)
(* dimension, and each is a (key, record) pair that was one row of the     *)
(* stream.                                                                 *)
C4_ResultAscending ==
    result # NoResult =>
        /\ \A i, j \in 1..Len(result) :
             i < j => Ord(result[i], statement) <= Ord(result[j], statement)
        /\ \A i \in 1..Len(result) : result[i] \in SeqRange(fed)

\* a result of two rows ordered by record whose keys are in descending order
C4_Witness ==
    /\ result # NoResult /\ Len(result) = 2 /\ ~statement.stream_key
    /\ result[1][1] > result[2][1]
    /\ result[1][2] < result[2][2]

(* C5: a visitor constructed with limit 0 behaves like one constructed     *)
(* with limit 1: its window never holds more than one entry, and its       *)
(* result is the single best row of the rows offered to it.                *)
C5_LimitZeroIsOne ==
    given_limit = 0 =>
        /\ statement.limit = 1
        /\ P.aborted \/ Cardinality(Window(P, statement)) <= 1
        /\ ~P.aborted
        /\ (result # NoResult /\ Offered(visitor, fed) # <<>>) =>
             /\ Len(result) = 1
             /\ result[1] \in SeqRange(Offered(visitor, fed))
             /\ \A i \in 1..Len(Offered(visitor, fed)) :
                  IF IsTop(visitor)
                  THEN Ord(Offered(visitor, fed)[i], statement) <= Ord(result[1], statement)
                  ELSE Ord(Offered(visitor, fed)[i], statement) >= Ord(result[1], statement)


\* the cached boundary of the selected dimension
Boundary(v, p, stmt) ==
    IF IsTop(v)
    THEN (IF stmt.stream_key THEN p.min_key ELSE p.min_record)
    ELSE (IF stmt.stream_key THEN p.max_key ELSE p.max_record)

Min2(a, b) == IF a < b THEN a ELSE b

(* C13: after any prefix of the stream the window holds min(K, n) entries, *)
(* n being the number of rows offered to the selector so far (the rows     *)
(* that pass the predicate, for the If visitors); so the number of entries *)
(* never goes down.                                                        *)
C13_WindowSize ==
    ~P.aborted =>
        Cardinality(Window(P, statement))
          = Min2(statement.limit, Len(Offered(visitor, fed)))

\* the extremum of the window the boundary is meant to cache
Extremum(v, p, stmt) ==
    IF IsTop(v) THEN map_begin_first(Window(p, stmt))
    ELSE map_rbegin_first(Window(p, stmt))

(* C14: whenever the window is not empty the cached boundary is the        *)
(* smallest (Top) or largest (Bottom) ordering value stored in it, so that *)
(* storage.find(boundary) always finds an entry and erase never gets       *)
(* end().                                                                  *)
C14_BoundaryIsExtremum ==
    /\ ~P.aborted
    /\ Window(P, statement) # {} =>
          Boundary(visitor, P, statement) = Extremum(visitor, P, statement)

\* the same for the visitors whose sentinel is right: the Top visitors and
\* the Bottom visitors on an unsigned ordering type
C14_SoundSentinel ==
    (IsTop(visitor)
       \/ (IF statement.stream_key THEN cfg.key_type ELSE cfg.record_type) = "uint") =>
        C14_BoundaryIsExtremum

\* x is not strictly better than the boundary b
NotBetter(v, x, b) == IF IsTop(v) THEN x <= b ELSE x >= b

(* C15: a row offered to a window that already holds K entries, with an    *)
(* ordering value equal to the boundary or worse than it, leaves the       *)
(* window and the boundary as they were.                                   *)
C15_NoEvictionUnlessBetter ==
    [][(Len(fed') = Len(fed) + 1
          /\ Cardinality(Window(P, statement)) >= statement.limit
          /\ NotBetter(visitor, Ord(fed'[Len(fed')], statement),
                       Boundary(visitor, P, statement))) =>
         /\ Window(P', statement) = Window(P, statement)
         /\ Boundary(visitor, P', statement) = Boundary(visitor, P, statement)
         /\ ~P'.aborted]_vars

\* a full window has turned away a row whose ordering value equals its
\* boundary and whose other field differs from the one stored
C15_Witness ==
    /\ Len(fed) >= 2 /\ ~P.aborted /\ entries = {"row"}
    /\ Cardinality(Window(P, statement)) = statement.limit
    /\ Len(Offered(visitor, SubSeq(fed, 1, Len(fed) - 1))) >= statement.limit
    /\ PassesPred(fed[Len(fed)])
    /\ Ord(fed[Len(fed)], statement) = Boundary(visitor, P, statement)
    /\ \A e \in Window(P, statement) :
         e[1] = Ord(fed[Len(fed)], statement) => <<e[1], e[2]>> # 
            <<Ord(fed[Len(fed)], statement),
              IF statement.stream_key THEN fed[Len(fed)][2] ELSE fed[Len(fed)][1]>>

IsPrefix(a, b) == Len(a) <= Len(b) /\ a = SubSeq(b, 1, Len(a))

\* the rows a step hands to the visitor
NewRows == SubSeq(fed', Len(fed) + 1, Len(fed'))

(* C16: an If visitor calls the predicate once for every row of the stream, *)
(* in stream order, whether or not the row could enter the window (a       *)
(* visitor that stopped inside an array has asked about the rows up to the *)
(* one it stopped at); and a call, per row or per array, whose rows all    *)
(* fail the predicate leaves both maps and both boundaries as they were.   *)
C16_PredicateOncePerRow ==
    /\ [](HasPlugin(visitor) =>
            /\ IsPrefix(P.asked, fed)
            /\ ~P.aborted => P.asked = fed)
    /\ [][(HasPlugin(visitor) /\ Len(fed') > Len(fed)
            /\ \A i \in 1..Len(NewRows) : ~PassesPred(NewRows[i])) =>
               /\ Members(P') = Members(P)
               /\ P'.asked = P.asked \o NewRows]_vars

\* an If visitor with a full window was handed, through the per-row entry
\* point, a row that passes the predicate but is not better than the
\* boundary, after a row that fails the predicate: both were asked about
C16_Witness ==
    /\ HasPlugin(visitor) /\ ~P.aborted /\ entries = {"row"} /\ Len(fed) >= 3
    /\ Cardinality(Window(P, statement)) = statement.limit
    /\ Len(Offered(visitor, SubSeq(fed, 1, Len(fed) - 1))) >= statement.limit
    /\ \E i \in 1..(Len(fed) - 1) : ~PassesPred(fed[i])
    /\ PassesPred(fed[Len(fed)])
    /\ NotBetter(visitor, Ord(fed[Len(fed)], statement), Boundary(visitor, P, statement))
    /\ P.asked = fed
    /\ \A e \in Window(P, statement) :
         <<e[1], e[2]>> # <<Ord(fed[Len(fed)], statement),
                            IF statement.stream_key THEN fed[Len(fed)][2]
                            ELSE fed[Len(fed)][1]>>

\* the type of the values the window is ordered by
OrdType == IF statement.stream_key THEN cfg.key_type ELSE cfg.record_type

\* the boundary a freshly constructed visitor starts with cannot be beaten
\* in the wrong direction, and the first row inserted becomes the boundary
SentinelHolds ==
    /\ \A x \in Values(OrdType) :
         IF IsTop(visitor)
         THEN Boundary(visitor, Constructed(visitor, cfg), statement) >= x
         ELSE Boundary(visitor, Constructed(visitor, cfg), statement) <= x
    /\ (Len(Offered(visitor, fed)) = 1 /\ ~P.aborted) =>
          Boundary(visitor, P, statement) = Ord(Offered(visitor, fed)[1], statement)

(* C17: the boundary of the empty window is a sentinel: for Top it is >=    *)
(* every value of the ordering type, for Bottom <= every value of it,      *)
(* negative reals included; after the first row is inserted the boundary   *)
(* equals that row's ordering value.                                       *)
C17_SentinelBound == SentinelHolds

\* the same for the visitors whose sentinel is sound: Top on every type,
\* Bottom on unsigned types
C17_SoundSentinel == (IsTop(visitor) \/ OrdType = "uint") => SentinelHolds

\* the window holds at most limit entries, limit being max(given limit, 1),
\* and the map of the other dimension is empty
WindowBounded ==
    /\ statement.limit = (IF given_limit = 0 THEN 1 ELSE given_limit)
    /\ ~P.aborted => /\ Cardinality(Window(P, statement)) <= statement.limit
                     /\ OtherMap(P, statement) = {}

(* C20: after any sequence of per-row and batch calls the window of a      *)
(* visitor (stored_keys under STREAM_KEY, stored_records otherwise) holds  *)
(* at most K = max(limit, 1) entries, and the map of the dimension that    *)
(* is not selected is empty.                                               *)
C20_WindowBounded == WindowBounded

\* the same for the visitors whose sentinel is sound: Top on every type,
\* Bottom on unsigned types
C20_SoundSentinel == (IsTop(visitor) \/ OrdType = "uint") => WindowBounded

\* a row as the window stores it: the ordering value first, then the other
\* field of the same row
Entry(row, stmt) == IF stmt.stream_key THEN <<row[1], row[2]>> ELSE <<row[2], row[1]>>

\* no two rows of the sequence have the same ordering value
DistinctOrd(rows, stmt) ==
    \A i, j \in 1..Len(rows) : i # j => Ord(rows[i], stmt) # Ord(rows[j], stmt)

\* the rows of the sequence that fewer than k rows of it beat
BestRows(v, rows, stmt, k) ==
    {Entry(rows[i], stmt) :
       i \in {i \in 1..Len(rows) :
                Cardinality({j \in 1..Len(rows) :
                               IF IsTop(v)
                               THEN Ord(rows[j], stmt) > Ord(rows[i], stmt)
                               ELSE Ord(rows[j], stmt) < Ord(rows[i], stmt)}) < k}}

\* after a stream of pairwise distinct ordering values the window is the
\* set of the min(K, n) best rows
WindowIsBest ==
    (DistinctOrd(Offered(visitor, fed), statement) /\ ~P.aborted) =>
        /\ Window(P, statement)
             = BestRows(visitor, Offered(visitor, fed), statement, statement.limit)
        /\ Cardinality(Window(P, statement))
             = Min2(statement.limit, Len(Offered(visitor, fed)))

(* C21: for every stream whose rows have pairwise distinct ordering values  *)
(* and every K >= 1, the window of a Top (Bottom) visitor is exactly the   *)
(* set of the min(K, n) rows with the largest (smallest) ordering values,  *)
(* each paired with the other field of the same row.                       *)
C21_WindowIsKBest == WindowIsBest

\* the same for the visitors whose sentinel is sound: Top on every type,
\* Bottom on unsigned types
C21_SoundSentinel == (IsTop(visitor) \/ OrdType = "uint") => WindowIsBest

\* every ordering value of the stream that the window does not hold is no
\* better than any ordering value the window holds
WindowDominates ==
    ~P.aborted =>
        \A x \in SeqRange(OrdValues(Offered(visitor, fed), statement))
                   \ MapKeys(Window(P, statement)) :
            \A y \in MapKeys(Window(P, statement)) : NotBetter(visitor, x, y)

(* C22: the window dominates what it left out: for Top every ordering      *)
(* value that occurred in the stream and is not in the window is <= every  *)
(* ordering value in the window, for Bottom >=; for every stream, streams  *)
(* with repeated ordering values included.                                 *)
C22_WindowDominates == WindowDominates

\* the same for the visitors whose sentinel is sound; repeated ordering
\* values refute it there as well (Top, K = 2, ordering values 1, 2, 2, 0:
\* the second 2 evicts 1 and is itself dropped by the map, then 0 enters)
C22_SoundSentinel == (IsTop(visitor) \/ OrdType = "uint") => WindowDominates

\* the same for streams of pairwise distinct ordering values fed to the
\* visitors whose sentinel is sound
C22_DistinctSoundSentinel ==
    ((IsTop(visitor) \/ OrdType = "uint")
       /\ DistinctOrd(Offered(visitor, fed), statement)) => WindowDominates

----------------------------------------------------------------------------
(* What the claims about the blob manager speak of *)

BlobPages == {p \in Pages : env.status[p] = "blob"}

\* the units a blob holds in the file: its header and its allocated size
Footprint(d, id) == id..(id + SizeofBlobHeader + get_alloc_size(d, id) - 1)

\* the units the freelist entries of page p describe
FreeUnits(d, p) ==
    UNION {{PageAddress(p) + kSizeofPersistentHeader + d.header[p].freelist[i].offset + k :
              k \in 0..(d.header[p].freelist[i].size - 1)} :
           i \in Slots \ FreeSlots(d.header[p])}

(* C6: every blob id that allocate returned reads back the payload stored  *)
(* under it, whatever calls were made on other blobs since; and allocate   *)
(* returns a blob id for every payload length from 1 on, unless the file   *)
(* is out of pages.                                                        *)
C6_RoundTrip ==
    /\ (last_op.op = "allocate" /\ last_op.ret # OutOfSpace) => ~IsError(last_op.ret)
    /\ \A id \in LiveIds : do_read(env, id) = live[id]

(* C7: an overwrite whose payload is not longer than the allocated_size of *)
(* the blob returns the same id, leaves allocated_size as it was, sets the *)
(* blob size to the new length, makes read return the new payload, and     *)
(* changes no page header: no freelist entry, no free_bytes.               *)
C7_OverwriteInPlace ==
    [][(ops' = ops + 1 /\ last_op'.op = "overwrite"
          /\ last_op'.len <= get_alloc_size(env, last_op'.id)) =>
         /\ last_op'.ret = last_op'.id
         /\ get_alloc_size(env', last_op'.id) = get_alloc_size(env, last_op'.id)
         /\ do_get_blob_size(env', last_op'.id) = last_op'.len
         /\ do_read(env', last_op'.id) = Payload(ops', last_op'.len)
         /\ env'.header = env.header
         /\ env'.status = env.status /\ env'.nfile = env.nfile]_vars

\* an overwrite in place with a payload shorter than the allocated size
C7_Witness ==
    /\ last_op.op = "overwrite" /\ last_op.ret = last_op.id
    /\ last_op.len < last_op.old_alloc
    /\ do_get_blob_size(env, last_op.id) = last_op.len
    /\ get_alloc_size(env, last_op.id) = last_op.old_alloc

(* C8: an overwrite whose payload is longer than the allocated_size of the *)
(* blob returns an id different from the old one; read of the new id       *)
(* returns the new payload and the old id is no longer a blob.             *)
C8_OverwriteRelocates ==
    (last_op.op = "overwrite" /\ last_op.len > last_op.old_alloc
       /\ ~IsError(last_op.ret)) =>
        /\ last_op.ret # last_op.id
        /\ do_read(env, last_op.ret) = Payload(ops, last_op.len)
        /\ last_op.id \notin LiveIds

(* C8, amended: an overwrite whose payload is longer than the              *)
(* allocated_size of the blob and which returns an id has erased the old   *)
(* blob and allocated a new one: read of the returned id returns the new   *)
(* payload, its size is the new length and its allocated_size holds it;    *)
(* the returned id may be the old one, and when it is not, the old id is   *)
(* no longer a blob.                                                       *)
C8_RelocatesOrReuses ==
    (last_op.op = "overwrite" /\ last_op.len > last_op.old_alloc
       /\ ~IsError(last_op.ret)) =>
        /\ do_read(env, last_op.ret) = Payload(ops, last_op.len)
        /\ do_get_blob_size(env, last_op.ret) = last_op.len
        /\ get_alloc_size(env, last_op.ret) >= last_op.len
        /\ last_op.ret # last_op.id => last_op.id \notin LiveIds

\* a relocating overwrite that returned the id it was given
C8_Witness ==
    /\ last_op.op = "overwrite" /\ last_op.len > last_op.old_alloc
    /\ last_op.ret = last_op.id
    /\ do_read(env, last_op.ret) = Payload(ops, last_op.len)

(* C9: check_integrity holds on every blob page, and no freelist entry     *)
(* overlaps a live blob.                                                   *)
C9_FreelistIntegrity ==
    \A p \in BlobPages :
        /\ check_integrity(env.header[p])
        /\ \A id \in LiveIds : Footprint(env, id) \cap FreeUnits(env, p) = {}

\* the single blob pages with a freelist entry of at least total units
PagesWithRoom(d, total) ==
    {p \in Pages : /\ d.status[p] = "blob"
                   /\ d.header[p].num_pages = 1
                   /\ \E i \in Slots : d.header[p].freelist[i].size >= total}

\* the slab freed at blobid is what an allocate of total units finds first:
\* its page is the only one with room, an entry of its freelist starts at
\* the slab and no entry in a lower slot fits; or it was the first slab of
\* its page, the page was released, no blob page has room and the pool holds
\* no other page
FreedSlabIsFirstFit(d, blobid, total) ==
    LET p == PageOf(blobid)
        f == d.header[p].freelist
    IN  \/ /\ PagesWithRoom(d, total) = {p}
           /\ \E i \in Slots :
                /\ PageAddress(p) + kSizeofPersistentHeader + f[i].offset = blobid
                /\ f[i].size >= total
                /\ \A j \in Slots : j < i => f[j].size < total
        \/ /\ PagesWithRoom(d, total) = {}
           /\ blobid = PageAddress(p) + kPageOverhead
           /\ {q \in Pages : q < d.nfile /\ d.status[q] = "free"} = {p}

(* C10: an allocate that follows the erase of a single-page blob, with a   *)
(* total footprint not larger than the erased slab, returns the id of the  *)
(* erased blob.                                                            *)
C10_ReuseAfterErase ==
    [][(ops' = ops + 1 /\ last_op.op = "erase" /\ last_op.num_pages = 1
          /\ last_op'.op = "allocate" /\ last_op'.len <= last_op.old_alloc) =>
         last_op'.ret = last_op.id]_vars

(* C10, amended: an allocate that follows the erase of a single-page blob, *)
(* with a total footprint not larger than the erased slab, returns the id  *)
(* of the erased blob when the freed slab is what first-fit finds first.   *)
C10_ReuseWhenFirstFit ==
    [][(ops' = ops + 1 /\ last_op.op = "erase" /\ last_op.num_pages = 1
          /\ last_op'.op = "allocate" /\ last_op'.len <= last_op.old_alloc
          /\ FreedSlabIsFirstFit(env, last_op.id,
                                 SizeofBlobHeader + last_op'.len)) =>
         last_op'.ret = last_op.id]_vars

\* the slab of an erased blob reused on a page that holds other blobs
C10_Witness ==
    /\ last_op.op = "allocate"
    /\ last_op.before = [op |-> "erase", id |-> last_op.ret]
    /\ \E id \in LiveIds : id < last_op.ret /\ PageOf(id) = PageOf(last_op.ret)
    /\ \E id \in LiveIds : id > last_op.ret /\ PageOf(id) = PageOf(last_op.ret)

FirstFitResult(h, size, r) ==
    LET fits == {i \in Slots : h.freelist[i].size # 0 /\ h.freelist[i].size >= size}
    IN  IF fits = {}
        THEN ~r.hit /\ r.header = h
        ELSE \E i \in fits :
               /\ \A j \in fits : i <= j
               /\ r.hit
               /\ r.offset = h.freelist[i].offset
               /\ r.header.freelist[i] =
                    (IF h.freelist[i].size = size
                     THEN [offset |-> 0, size |-> 0]
                     ELSE [offset |-> h.freelist[i].offset + size,
                           size |-> h.freelist[i].size - size])
               /\ \A j \in Slots \ {i} : r.header.freelist[j] = h.freelist[j]
               /\ r.header.free_bytes = h.free_bytes - size
               /\ r.header.num_pages = h.num_pages

MultiPages == {p \in BlobPages : env.header[p].num_pages >= 2}

Run(p) == p..(p + env.header[p].num_pages - 1)

----------------------------------------------------------------------------
(* What the claims about File speak of *)

LiveFiles == {f \in FileIds : files[f].alive}

(* C11: a copy construction or an assignment between two File objects      *)
(* moves the handles: afterwards the source holds no descriptor and no     *)
(* mapping handle, and the target holds the descriptor and the mapping     *)
(* handle the source held before; and no handle is ever held by two live   *)
(* File objects.                                                           *)
C11_CopyMovesHandles ==
    /\ [][(fops' = fops + 1 /\ last_fop'.op \in {"copy", "assign"}
             /\ last_fop'.self # last_fop'.other) =>
            /\ ~is_open(files'[last_fop'.other])
            /\ files'[last_fop'.other].m_mmaph = HAM_INVALID_FD
            /\ files'[last_fop'.self].m_fd = files[last_fop'.other].m_fd
            /\ files'[last_fop'.self].m_mmaph = files[last_fop'.other].m_mmaph]_vars
    /\ [](\A f, g \in LiveFiles : f # g => Held(files[f]) \cap Held(files[g]) = {})

\* the descriptors obtained by open/create that have not been closed: the
\* handles the operating system has out that are not mapping handles
Descriptors == os_handles \ {files[f].m_mmaph : f \in FileIds}

\* the live File objects whose m_fd is the descriptor h
Owners(h) == {f \in LiveFiles : files[f].m_fd = h}

\* every open descriptor is the m_fd of exactly one live File
EveryDescriptorOwned == \A h \in Descriptors : Cardinality(Owners(h)) = 1

(* C23: no sequence of copy constructions and assignments loses an open    *)
(* descriptor: a descriptor obtained by open/create is the m_fd of exactly *)
(* one live File until that object's close() or destructor runs, also when *)
(* the target of an assignment was open and when a File is assigned to     *)
(* itself.                                                                 *)
C23_NoDescriptorLost == EveryDescriptorOwned

\* the same for the copy constructor alone: a copy construction keeps every
\* descriptor owned
C23_CopyConstructKeeps ==
    [][(fops' = fops + 1 /\ last_fop'.op = "copy" /\ EveryDescriptorOwned) =>
         EveryDescriptorOwned']_vars

=============================================================================
